---- MODULE Spec2Model ----
(***************************************************************************)
(* Model of handler._default.CreateSchedule                                *)
(* (src/handler/default_schedule.go), from node resolution (line 66) to    *)
(* the response (line 177): the mutex-guarded map of per-node circuit      *)
(* breakers, the call through breaker.Run, the TTL health signals and the  *)
(* classification of every outcome into one JSON response.                 *)
(*                                                                         *)
(* The breaker is github.com/eapache/go-resiliency/breaker (imported at    *)
(* line 13, constructed at line 95, run at line 100).  Its state machine   *)
(* is modelled as that package implements it:                              *)
(*   Run           loads the state atomically; open -> ErrBreakerOpen      *)
(*                 without calling work; otherwise doWork.                 *)
(*   doWork        calls work; a nil result seen from the closed state     *)
(*                 returns without touching the breaker; every other       *)
(*                 result goes to processResult, and work's result is      *)
(*                 returned as it is.                                      *)
(*   processResult (under the breaker's lock) success: counted only in     *)
(*                 halfOpen, closing at successThreshold; failure: the     *)
(*                 error count is first dropped to 0 when the last error   *)
(*                 is older than timeout, then closed counts it and opens  *)
(*                 at errorThreshold (else stamps lastError), halfOpen     *)
(*                 opens at once.                                          *)
(*   openBreaker   changeState(open) and a goroutine that sleeps timeout   *)
(*                 and then does changeState(halfOpen).                    *)
(*   changeState   errors = 0, successes = 0, state = new.                 *)
(*                                                                         *)
(* Time is a discrete clock.  time.Sleep and time.AfterFunc run their      *)
(* continuation no earlier than the duration asked for, with no upper      *)
(* bound, so a timer action is enabled from its due time on.               *)
(***************************************************************************)
EXTENDS Integers, Sequences, FiniteSets, Bags, TLC

\* Bounds of the model.
NSlots == 2          \* requests in flight at the same time
MaxReq == 5          \* requests started over the whole run
MaxTime == 2         \* last clock value
\* h.BreakerCfg values (line 95), chosen small.
ErrorThreshold == 2
SuccessThreshold == 2
CoolDown == 1

Slots == 1..NSlots
Nodes == {"n1", "n2"}

\* Results of h.consulAgent.GetNextServiceNode other than a node (lines 67, 72-91).
ResolveErrs == {"AvailableNodeNotExist", "ResolveOther"}

\* What h.scheduleService.CreateSchedule returns as rpcErr (lines 108, 126-153):
\* nil, a *errors.Error with Code 408, a *errors.Error with another code,
\* an error of another type.
RpcErrs == {"nil", "microTimeout", "microOther", "otherType"}

\* rpcResp of a call without transport error: Status, Code, Msg (lines 155-175).
DeclStatuses == {201, 408, 500, 503, 409}
DeclCodes == {"d7"}
Declared == [status : DeclStatuses, code : DeclCodes, msg : {<<"backend message">>}]
NoDecl == [status |-> 0, code |-> "0", msg |-> <<>>]

VARIABLES
    now,        \* the clock
    mutex,      \* h.mutex: 0 when free, else the slot holding it
    breakers,   \* h.breakers: node id -> instance (0: no entry)
    made,       \* per node id, the number of breaker.New results stored
    brk,        \* the state of the breaker stored for each node id
    slot,       \* per slot, the request it is handling
    last,       \* the request that ended in the latest step, as it ended (Fresh: none did)
    timers,     \* bag of the pending time.AfterFunc timers (line 118)
    fails,      \* per node, FailTTLHealth calls made
    passes,     \* per node, PassTTLHealth calls made
    nreq        \* requests started

vars == <<now, mutex, breakers, made, brk, slot, last, timers, fails, passes, nreq>>

----------------------------------------------------------------------------
\* The breaker package.

New ==
    [state |-> "closed", errors |-> 0, successes |-> 0, lastError |-> -1,
     timer |-> -1]

changeState(b, newState) ==
    [b EXCEPT !.errors = 0, !.successes = 0, !.state = newState]

\* Mutant: an openBreaker whose timer goroutine does not sleep.
openBreakerNoSleep(b, t) ==
    [changeState(b, "open") EXCEPT !.timer = t]

\* openBreaker: changeState(open); go b.timer().  timer is the instant the
\* goroutine's time.Sleep(b.timeout) ends (-1: no goroutine sleeping).
openBreaker(b, t) ==
    [changeState(b, "open") EXCEPT !.timer = t + CoolDown]

closeBreaker(b) == changeState(b, "closed")

\* The error count after the expiry test at the head of the failure branch.
Expired(b, t) == b.errors > 0 /\ t > b.lastError + CoolDown

processResult(b, ok, t) ==
    IF ok
    THEN IF b.state = "halfOpen"
         THEN LET b1 == [b EXCEPT !.successes = b.successes + 1]
              IN  IF b1.successes = SuccessThreshold THEN closeBreaker(b1) ELSE b1
         ELSE b
    ELSE LET b1 == IF Expired(b, t) THEN [b EXCEPT !.errors = 0] ELSE b
         IN  CASE b1.state = "closed" ->
                    LET b2 == [b1 EXCEPT !.errors = b1.errors + 1]
                    IN  IF b2.errors = ErrorThreshold
                        THEN openBreaker(b2, t)
                        ELSE [b2 EXCEPT !.lastError = t]
               [] b1.state = "halfOpen" -> openBreaker(b1, t)
               [] OTHER -> b1

\* Mutant: a doWork that clears the error count on every success.
doWorkResetting(b, state, ok, t) ==
    IF ok /\ state = "closed" THEN [b EXCEPT !.errors = 0] ELSE processResult(b, ok, t)

\* doWork after work() has returned: state is the value Run loaded.
doWork(b, state, ok, t) ==
    IF ok /\ state = "closed" THEN b ELSE processResult(b, ok, t)

\* Mutant: a Run that lets every call through.
RunRejectsNever(state) == FALSE

\* Run's test of the loaded state.
RunRejects(state) == state = "open"

\* Mutant: a breaker that hides the kind of the error it passes on.
ReturnedWrapped(rpcErr) == IF rpcErr = "nil" THEN "nil" ELSE "otherType"

\* What Run returns for a call it let through: doWork's "return result".
Returned(rpcErr) == rpcErr

----------------------------------------------------------------------------
\* The responses of CreateSchedule.

Response(status, code, msg) == [status |-> status, code |-> code, msg |-> msg]

\* Mutant: a switch err without the AvailableNodeNotExist case.
ClassifyResolveAllInternal(e) ==
    Response(500, "0", <<"unable to get service node from consul agent", e>>)

\* switch err, lines 72-91.
ClassifyResolve(e) ==
    IF e = "AvailableNodeNotExist"
    THEN Response(503, "AvailableServiceNotExist",
                  <<"available schedule service node is not exist in consul">>)
    ELSE Response(500, "0", <<"unable to get service node from consul agent", e>>)

\* Mutant: the breaker-open branch answering as an internal error.
ClassifyOpenAsInternal(n) ==
    Response(500, "0", <<"circuit breaker is open", n, ToString(CoolDown)>>)

\* err == breaker.ErrBreakerOpen, lines 114-119.
ClassifyOpen(n) ==
    Response(503, "CircuitBreakerOpen",
             <<"circuit breaker is open", n, ToString(CoolDown)>>)

\* Mutant: a type switch without the test of rpcErr.Code.
ClassifyTransportAllInternal(e) ==
    IF e \in {"microTimeout", "microOther"}
    THEN Response(500, "0", <<"CreateSchedule returns unexpected micro error", "detail">>)
    ELSE Response(500, "0", <<"CreateSchedule returns unexpected type of error", "err">>)

\* switch rpcErr := err.(type), lines 126-153.
ClassifyTransport(e) ==
    CASE e = "microTimeout" ->
           Response(408, "0", <<"request time out for CreateSchedule service", "detail">>)
      [] e = "microOther" ->
           Response(500, "0", <<"CreateSchedule returns unexpected micro error", "detail">>)
      [] OTHER ->
           Response(500, "0", <<"CreateSchedule returns unexpected type of error", "err">>)

\* Mutant: a switch rpcResp.Status that answers with code 0 in every case.
ClassifyDeclaredCodeZero(d) ==
    IF d.status = 201
    THEN Response(201, "0", <<"succeed to create new schedule", "schedule_uuid", "">>)
    ELSE Response(d.status, "0", d.msg)

\* switch rpcResp.Status, lines 155-175.
ClassifyDeclared(d) ==
    IF d.status = 201
    THEN Response(201, "0", <<"succeed to create new schedule", "schedule_uuid", "">>)
    ELSE Response(d.status, d.code, d.msg)

----------------------------------------------------------------------------
\* The request a slot handles.

\* pc      where the handler is: idle, lock, insert, unlock, read, rpc,
\*         rejected, marked; done and fault only in the variable last
\* node    selectedNode.Id            rerr    err of GetNextServiceNode
\* b       the instance line 100 read st      the state Run loaded
\* runs    calls of Run               rpc     calls of scheduleService.CreateSchedule
\* rpcErr  what the RPC returned      err     what Run returned
\* decl    rpcResp                    at      the instant Run returned ErrBreakerOpen
\* failOk  FailTTLHealth's result     sched   timers created
\* resp    the c.JSON calls made, in order
Fresh ==
    [pc |-> "idle", node |-> "none", rerr |-> "none", b |-> 0, st |-> "none",
     runs |-> 0, rpc |-> 0, rpcErr |-> "none", err |-> "none", decl |-> NoDecl,
     at |-> -1, failOk |-> "none", sched |-> 0, resp |-> <<>>]

Init ==
    /\ now = 0
    /\ mutex = 0
    /\ breakers = [n \in Nodes |-> 0]
    /\ made = [n \in Nodes |-> 0]
    /\ brk = [n \in Nodes |-> New]
    /\ slot = [r \in Slots |-> Fresh]
    /\ last = Fresh
    /\ timers = EmptyBag
    /\ fails = [n \in Nodes |-> 0]
    /\ passes = [n \in Nodes |-> 0]
    /\ nreq = 0

Free(r) == slot[r].pc = "idle"

\* The handler returns (or its goroutine dies): rec is the request as it
\* ended, and the slot is free for the next request.
Finish(r, rec) ==
    /\ slot' = [slot EXCEPT ![r] = Fresh]
    /\ last' = rec

\* Lines 66-91: a new request reaches GetNextServiceNode.
Resolve(r) ==
    /\ Free(r)
    /\ nreq < MaxReq
    /\ nreq' = nreq + 1
    /\ \E res \in Nodes \cup ResolveErrs :
         IF res \in Nodes
         THEN /\ slot' = [slot EXCEPT ![r] =
                    [Fresh EXCEPT !.pc = "lock", !.node = res, !.rerr = "nil"]]
              /\ last' = Fresh
         ELSE Finish(r, [Fresh EXCEPT !.pc = "done", !.rerr = res,
                                      !.resp = <<ClassifyResolve(res)>>])
    /\ UNCHANGED <<now, mutex, breakers, made, brk, timers, fails, passes>>

\* Mutant: an insert that is not guarded by the test of line 94.
AbsentAlways(n) == TRUE

\* Whether the locked test of line 94 finds no entry.
Absent(n) == breakers[n] = 0

\* Mutant: the test-and-insert of lines 94-95 without taking the mutex.
CanLockUnguarded(r) == TRUE

\* Whether h.mutex.Lock() (line 93) can return.
CanLock(r) == mutex = 0

\* Lines 93-94: h.mutex.Lock() and the test of the map under the lock.
Lock(r) ==
    /\ slot[r].pc = "lock"
    /\ CanLock(r)
    /\ mutex' = r
    /\ slot' = [slot EXCEPT ![r].pc =
                  IF Absent(slot[r].node) THEN "insert" ELSE "unlock"]
    /\ last' = Fresh
    /\ UNCHANGED <<now, breakers, made, brk, timers, fails, passes, nreq>>

\* Line 95: the map write, in progress while the slot is at "insert".
Insert(r) ==
    /\ slot[r].pc = "insert"
    /\ LET n == slot[r].node
       IN  /\ made' = [made EXCEPT ![n] = made[n] + 1]
           /\ breakers' = [breakers EXCEPT ![n] = made[n] + 1]
           /\ brk' = [brk EXCEPT ![n] = New]
    /\ slot' = [slot EXCEPT ![r].pc = "unlock"]
    /\ last' = Fresh
    /\ UNCHANGED <<now, mutex, timers, fails, passes, nreq>>

\* Mutant: a handler that goes on to line 100 with the mutex still held.
UnlockSkipped(r) ==
    /\ slot[r].pc = "unlock"
    /\ slot' = [slot EXCEPT ![r].pc = "read"]
    /\ last' = Fresh
    /\ UNCHANGED <<now, mutex, breakers, made, brk, timers, fails, passes, nreq>>

\* Line 97.
Unlock(r) ==
    /\ slot[r].pc = "unlock"
    /\ mutex' = 0
    /\ slot' = [slot EXCEPT ![r].pc = "read"]
    /\ last' = Fresh
    /\ UNCHANGED <<now, breakers, made, brk, timers, fails, passes, nreq>>

\* Line 100's map read is made without the mutex: it races with the write of
\* line 95 by a request that holds the mutex.
Racing(r) == \E q \in Slots : q # r /\ slot[q].pc = "insert"

\* Line 100: h.breakers[selectedNode.Id].Run(...) up to the call of work.
\* A read that races with a write either returns the entry or faults (the
\* runtime's "concurrent map read and map write", or a nil *Breaker).
Run(r) ==
    /\ slot[r].pc = "read"
    /\ LET n == slot[r].node
           st == brk[n].state
       IN  \/ /\ breakers[n] # 0
              /\ slot' = [slot EXCEPT ![r] =
                   IF RunRejects(st)
                   THEN [@ EXCEPT !.b = breakers[n], !.st = st, !.runs = @ + 1,
                                  !.err = "open", !.at = now, !.pc = "rejected"]
                   ELSE [@ EXCEPT !.b = breakers[n], !.st = st, !.runs = @ + 1,
                                  !.rpc = @ + 1, !.pc = "rpc"]]
              /\ last' = Fresh
           \/ /\ Racing(r) \/ breakers[n] = 0
              /\ Finish(r, [slot[r] EXCEPT !.pc = "fault"])
    /\ UNCHANGED <<now, mutex, breakers, made, brk, timers, fails, passes, nreq>>

\* Mutant: a work function that also reports a declared error status to the
\* breaker as an error.
WorkOkByStatus(e, d) == e = "nil" /\ d.status < 400

\* Whether the work function of lines 100-112 returns nil to the breaker: its
\* result is rpcErr alone (line 111), whatever rpcResp holds.
WorkOk(e, d) == e = "nil"

\* Mutant: a handler that calls Run again after a first transport error.
RpcDoneRetrying(r) ==
    /\ slot[r].pc = "rpc"
    /\ \E e \in RpcErrs, d \in Declared :
         LET n == slot[r].node
             ok == e = "nil"
         IN  /\ ok \/ d = CHOOSE x \in Declared : TRUE
             /\ brk' = [brk EXCEPT ![n] = doWork(brk[n], slot[r].st, WorkOk(e, d), now)]
             /\ IF ~ok /\ slot[r].runs < 2
                THEN /\ slot' = [slot EXCEPT ![r].pc = "read"]
                     /\ last' = Fresh
                ELSE Finish(r, [slot[r] EXCEPT
                        !.rpcErr = e,
                        !.err = Returned(e),
                        !.decl = IF ok THEN d ELSE NoDecl,
                        !.resp = Append(@, IF Returned(e) = "nil"
                                           THEN ClassifyDeclared(d)
                                           ELSE ClassifyTransport(Returned(e))),
                        !.pc = "done"])
    /\ UNCHANGED <<now, mutex, breakers, made, timers, fails, passes, nreq>>

\* Lines 108-112 and 126-175: the RPC returns, doWork records the result, and
\* the handler answers.
RpcDone(r) ==
    /\ slot[r].pc = "rpc"
    /\ \E e \in RpcErrs, d \in Declared :
         LET n == slot[r].node
             ok == e = "nil"
         IN  /\ ok \/ d = CHOOSE x \in Declared : TRUE
             /\ brk' = [brk EXCEPT ![n] = doWork(brk[n], slot[r].st, WorkOk(e, d), now)]
             /\ Finish(r, [slot[r] EXCEPT
                     !.rpcErr = e,
                     !.err = Returned(e),
                     !.decl = IF ok THEN d ELSE NoDecl,
                     !.resp = Append(@, IF Returned(e) = "nil"
                                        THEN ClassifyDeclared(d)
                                        ELSE ClassifyTransport(Returned(e))),
                     !.pc = "done"])
    /\ UNCHANGED <<now, mutex, breakers, made, timers, fails, passes, nreq>>

\* Mutant: an error of FailTTLHealth ends the request with a 500 and no timer.
FailTTLEscalating(r) ==
    /\ slot[r].pc = "rejected"
    /\ \E ok \in BOOLEAN :
         IF ok
         THEN /\ slot' = [slot EXCEPT ![r].failOk = "ok", ![r].pc = "marked"]
              /\ last' = Fresh
         ELSE Finish(r, [slot[r] EXCEPT
                 !.failOk = "err",
                 !.resp = Append(@, Response(500, "0", <<"health check update failed">>)),
                 !.pc = "done"])
    /\ fails' = [fails EXCEPT ![slot[r].node] = @ + 1]
    /\ UNCHANGED <<now, mutex, breakers, made, brk, timers, passes, nreq>>

\* Line 117: _ = h.consulAgent.FailTTLHealth(CheckID, ...); its error is dropped.
FailTTL(r) ==
    /\ slot[r].pc = "rejected"
    /\ \E ok \in BOOLEAN :
         slot' = [slot EXCEPT ![r].failOk = IF ok THEN "ok" ELSE "err",
                              ![r].pc = "marked"]
    /\ fails' = [fails EXCEPT ![slot[r].node] = @ + 1]
    /\ last' = Fresh
    /\ UNCHANGED <<now, mutex, breakers, made, brk, timers, passes, nreq>>

\* Mutant: a timer created with no delay.
AfterFuncAtOnce(n, rej, t) == [node |-> n, rej |-> rej, due |-> t]

\* The timer time.AfterFunc(h.BreakerCfg.Timeout, ...) creates at instant t
\* for a request that Run rejected at instant rej.
AfterFunc(n, rej, t) == [node |-> n, rej |-> rej, due |-> t + CoolDown]

\* Lines 118-123: the timer is created and the 503 is written.
RespondOpen(r) ==
    /\ slot[r].pc = "marked"
    /\ timers' = timers (+) SetToBag({AfterFunc(slot[r].node, slot[r].at, now)})
    /\ Finish(r, [slot[r] EXCEPT !.sched = @ + 1,
                                 !.resp = Append(@, ClassifyOpen(slot[r].node)),
                                 !.pc = "done"])
    /\ UNCHANGED <<now, mutex, breakers, made, brk, fails, passes, nreq>>

\* Mutant: a timer that runs its function again and again.
HealthTimerRepeating ==
    /\ \E t \in BagToSet(timers) :
         /\ now >= t.due
         /\ passes[t.node] < MaxReq
         /\ \E ok \in BOOLEAN : passes' = [passes EXCEPT ![t.node] = @ + 1]
    /\ last' = Fresh
    /\ UNCHANGED <<now, mutex, breakers, made, brk, slot, timers, fails, nreq>>

\* The function of line 118 runs: _ = PassTTLHealth(CheckID, ...).
HealthTimer ==
    /\ \E t \in BagToSet(timers) :
         /\ now >= t.due
         /\ timers' = timers (-) SetToBag({t})
         /\ \E ok \in BOOLEAN : passes' = [passes EXCEPT ![t.node] = @ + 1]
    /\ last' = Fresh
    /\ UNCHANGED <<now, mutex, breakers, made, brk, slot, fails, nreq>>

\* The breaker's timer goroutine: time.Sleep(timeout), then changeState(halfOpen).
BreakerTimer ==
    /\ \E n \in Nodes :
         /\ brk[n].timer # -1
         /\ now >= brk[n].timer
         /\ brk' = [brk EXCEPT ![n] = [changeState(@, "halfOpen") EXCEPT !.timer = -1]]
    /\ last' = Fresh
    /\ UNCHANGED <<now, mutex, breakers, made, slot, timers, fails, passes, nreq>>

Tick ==
    /\ now < MaxTime
    /\ now' = now + 1
    /\ last' = Fresh
    /\ UNCHANGED <<mutex, breakers, made, brk, slot, timers, fails, passes, nreq>>

Next ==
    \/ \E r \in Slots : Resolve(r)
    \/ \E r \in Slots : Lock(r)
    \/ \E r \in Slots : Insert(r)
    \/ \E r \in Slots : Unlock(r)
    \/ \E r \in Slots : Run(r)
    \/ \E r \in Slots : RpcDone(r)
    \/ \E r \in Slots : FailTTL(r)
    \/ \E r \in Slots : RespondOpen(r)
    \/ HealthTimer
    \/ BreakerTimer
    \/ Tick

Spec == Init /\ [][Next]_vars

\* The clock of the fair specification: it goes on past MaxTime for as long
\* as a time.AfterFunc timer is not yet due, so that no timer is left
\* waiting for an instant the clock never reaches.
TickOn ==
    /\ now < MaxTime \/ \E t \in BagToSet(timers) : t.due > now
    /\ now' = now + 1
    /\ last' = Fresh
    /\ UNCHANGED <<mutex, breakers, made, brk, slot, timers, fails, passes, nreq>>

\* Whether the process is running: it is not once the runtime has ended it.
Alive == last.pc # "exit"

\* Line 100, the other outcome of a map read that races with the write of
\* line 95: the runtime detects it and ends the process ("fatal error:
\* concurrent map read and map write"), with every handler where it is and
\* every timer pending; last is the request whose read was detected.
Exit(r) ==
    /\ slot[r].pc = "read"
    /\ Racing(r)
    /\ last' = [slot[r] EXCEPT !.pc = "exit"]
    /\ UNCHANGED <<now, mutex, breakers, made, brk, slot, timers, fails, passes, nreq>>

FairNext ==
    \/ Alive /\ \E r \in Slots : Resolve(r)
    \/ Alive /\ \E r \in Slots : Lock(r)
    \/ Alive /\ \E r \in Slots : Insert(r)
    \/ Alive /\ \E r \in Slots : Unlock(r)
    \/ Alive /\ \E r \in Slots : Run(r)
    \/ Alive /\ \E r \in Slots : RpcDone(r)
    \/ Alive /\ \E r \in Slots : FailTTL(r)
    \/ Alive /\ \E r \in Slots : RespondOpen(r)
    \/ Alive /\ HealthTimer
    \/ Alive /\ BreakerTimer
    \/ Alive /\ TickOn
    \/ Alive /\ \E r \in Slots : Exit(r)

\* While the process runs, time passes, the runtime runs a timer's function
\* once it is due, and a handler in the breaker-open branch (lines 114-123,
\* which wait for nothing but the consul agent's answer) goes on to its
\* return.
FairSpec ==
    /\ Init /\ [][FairNext]_vars
    /\ WF_vars(Alive /\ TickOn)
    /\ WF_vars(Alive /\ HealthTimer)
    /\ \A r \in Slots : /\ WF_vars(Alive /\ FailTTL(r))
                        /\ WF_vars(Alive /\ RespondOpen(r))

----------------------------------------------------------------------------
\* Vocabulary of the properties.

\* The requests in flight and the one that ended in the latest step.
Recs == {slot[r] : r \in Slots} \cup {last}

\* Slot r makes line 100's read and Run's state test in this step.
RunStep(r) == slot[r].pc = "read" /\ slot'[r].pc # "read"

\* Slot r's RPC returns in this step; last' is the request as it ended.
RpcStep(r) == slot[r].pc = "rpc" /\ slot'[r].pc = "idle"

RECURSIVE TimersOf(_, _)
TimersOf(S, n) ==
    IF S = {} THEN 0
    ELSE LET t == CHOOSE x \in S : TRUE
         IN  (IF t.node = n THEN CopiesIn(t, timers) ELSE 0) + TimersOf(S \ {t}, n)

\* The timers pending for node n.
Pending(n) == TimersOf(BagToSet(timers), n)

\* The requests between FailTTLHealth and time.AfterFunc for node n.
Marked(n) == Cardinality({r \in Slots : slot[r].pc = "marked" /\ slot[r].node = n})

----------------------------------------------------------------------------
\* C1: for every node id at most one Breaker is ever created, whatever the
\* interleaving of the requests that find the id unseen; once a request has
\* left the locked section for an id exactly one has been created; the entry
\* is never removed or replaced; and every request that runs its call runs it
\* through that one instance.
C1_OneBreakerPerNode ==
    /\ \A n \in Nodes : made[n] <= 1 /\ breakers[n] = made[n]
    /\ \A rec \in Recs :
         /\ rec.pc \in {"unlock", "read", "rpc", "rejected", "marked"} =>
              made[rec.node] = 1
         /\ rec.runs > 0 => rec.b = breakers[rec.node] /\ rec.b = 1

\* The first NSlots requests all chose n1 while it was unseen, and all of them
\* are inside the RPC through instance 1.
C1_Witness ==
    /\ nreq = NSlots
    /\ made["n1"] = 1
    /\ \A r \in Slots : slot[r].pc = "rpc" /\ slot[r].node = "n1" /\ slot[r].b = 1

C3_OpenSkipsRpc ==
    \A rec \in Recs :
        /\ rec.runs > 0 => rec.st \in {"closed", "open", "halfOpen"}
        /\ rec.st = "open" => rec.rpc = 0 /\ rec.err = "open" /\ rec.rpcErr = "none"
        /\ rec.st \in {"closed", "halfOpen"} =>
             /\ rec.rpc = 1
             /\ rec.err # "open"
             /\ rec.pc = "done" => rec.rpcErr \in RpcErrs /\ rec.err = rec.rpcErr

\* A call through a HalfOpen breaker has returned a timeout-coded error, and
\* a call that found the breaker Open has returned without an RPC.
C3_Witness ==
    /\ last.pc = "done" /\ last.st = "halfOpen" /\ last.err = "microTimeout"
    /\ \E r \in Slots : slot[r].pc = "rejected" /\ slot[r].st = "open" /\ slot[r].rpc = 0

C6_Original ==
    \A n \in Nodes :
        (/\ brk[n].state = "closed"
         /\ fails[n] = 1
         /\ \A r \in Slots : slot[r].node = n => slot[r].pc \notin {"rejected", "marked"})
        => passes[n] = 1

\* C6 amended: when the breaker is Closed again after one request was
\* rejected, the passing signal for the node has been sent at most once and,
\* if not yet sent, its timer is still pending: the signal is sent once, no
\* earlier than coolDown after the rejection, and that may be after the
\* breaker has closed.
C6_ClosedAgainPassOnce ==
    \A n \in Nodes :
        (/\ brk[n].state = "closed"
         /\ fails[n] = 1
         /\ \A r \in Slots : slot[r].node = n => slot[r].pc \notin {"rejected", "marked"})
        => /\ passes[n] + Pending(n) = 1
           /\ \A t \in BagToSet(timers) : t.node = n => t.due >= t.rej + CoolDown
           /\ breakers[n] = 1

\* Scenario E has run to its end on n1: the fifth request closed the breaker
\* and the one rejection's passing signal has been sent.
C6_Witness ==
    /\ brk["n1"].state = "closed" /\ fails["n1"] = 1 /\ passes["n1"] = 1
    /\ last.pc = "done" /\ last.node = "n1" /\ last.st = "halfOpen"

C8_OpenAnswered503 ==
    (last.pc = "done" /\ last.err = "open") =>
        /\ last.st = "open"
        /\ Len(last.resp) = 1
        /\ last.resp[1].status = 503
        /\ last.resp[1].code = "CircuitBreakerOpen"
        /\ last.resp[1].msg = <<"circuit breaker is open", last.node, ToString(CoolDown)>>
        /\ last.failOk # "none"
        /\ fails[last.node] >= 1

\* A rejected request has been answered while the other node has no failing
\* signal.
C8_Witness ==
    /\ last.pc = "done" /\ last.err = "open" /\ last.resp[1].status = 503
    /\ \E n \in Nodes : n # last.node /\ fails[n] = 0 /\ fails[last.node] = 1

\* C9: when FailTTLHealth fails, the rejected request is still answered
\* 503/CircuitBreakerOpen and its timer is still created; and no step that
\* sends a health signal or creates a timer changes a breaker.
C9_HealthErrorsDropped ==
    /\ []((last.pc = "done" /\ last.failOk = "err") =>
            /\ last.err = "open"
            /\ Len(last.resp) = 1
            /\ last.resp[1].status = 503
            /\ last.resp[1].code = "CircuitBreakerOpen"
            /\ last.sched = 1
            /\ passes[last.node] + Pending(last.node) >= 1)
    /\ [][(fails' # fails \/ passes' # passes \/ timers' # timers) => brk' = brk]_vars

\* A request whose FailTTLHealth failed has been answered and its timer is
\* pending.
C9_Witness ==
    /\ last.pc = "done" /\ last.failOk = "err"
    /\ Pending(last.node) = 1

\* The response the handler's switches give a request that ended, by the
\* first stage that failed.
Expected(rec) ==
    CASE rec.rerr = "AvailableNodeNotExist" -> <<503, "AvailableServiceNotExist">>
      [] rec.rerr = "ResolveOther" -> <<500, "0">>
      [] rec.err = "open" -> <<503, "CircuitBreakerOpen">>
      [] rec.err = "microTimeout" -> <<408, "0">>
      [] rec.err \in {"microOther", "otherType"} -> <<500, "0">>
      [] rec.err = "nil" /\ rec.decl.status = 201 -> <<201, "0">>
      [] rec.err = "nil" -> <<rec.decl.status, rec.decl.code>>
      [] OTHER -> <<0, "none">>

\* C10: every request that reached GetNextServiceNode and ended has written
\* exactly one response, the one of the first stage that failed.
C10_OneClassifiedResponse ==
    last.pc # "idle" =>
        /\ Len(last.resp) = 1
        /\ <<last.resp[1].status, last.resp[1].code>> = Expected(last)

\* C10 for the requests that returned from the handler.
C10_ReturnedClassified ==
    last.pc = "done" =>
        /\ Len(last.resp) = 1
        /\ <<last.resp[1].status, last.resp[1].code>> = Expected(last)

\* C11: a request whose node resolution failed is answered once, 503 with
\* code AvailableServiceNotExist for AvailableNodeNotExist and 500 with code 0
\* for any other error; it has read no breaker, called neither Run nor the
\* RPC, sent no health signal and created no timer; and the step in which it
\* ends creates no breaker and changes none.
C11_ResolveErrorsAnswered ==
    /\ []((last.pc # "idle" /\ last.rerr \in ResolveErrs) =>
            /\ last.pc = "done"
            /\ Len(last.resp) = 1
            /\ last.rerr = "AvailableNodeNotExist" =>
                  last.resp[1].status = 503 /\ last.resp[1].code = "AvailableServiceNotExist"
            /\ last.rerr # "AvailableNodeNotExist" =>
                  last.resp[1].status = 500 /\ last.resp[1].code = "0"
            /\ last.node = "none" /\ last.b = 0
            /\ last.runs = 0 /\ last.rpc = 0
            /\ last.failOk = "none" /\ last.sched = 0)
    /\ [](\A rec \in Recs : rec.pc \notin {"idle", "done"} => rec.rerr = "nil")
    /\ [][last'.rerr \in ResolveErrs =>
            UNCHANGED <<mutex, breakers, made, brk, timers, fails, passes>>]_vars

\* A resolution has just failed with AvailableNodeNotExist while a breaker is
\* Open and another request is inside its RPC.
C11_Witness ==
    /\ last.pc = "done" /\ last.rerr = "AvailableNodeNotExist"
    /\ last.resp[1].status = 503
    /\ \E n \in Nodes : brk[n].state = "open"
    /\ \E r \in Slots : slot[r].pc = "rpc"

\* The transport errors: every rpcErr but nil.
TransportErrs == RpcErrs \ {"nil"}

C13_DeclaredStatusAnswered ==
    (last.pc = "done" /\ last.rpcErr = "nil") =>
        /\ last.err = "nil"
        /\ last.decl \in Declared
        /\ Len(last.resp) = 1
        /\ IF last.decl.status = 201
           THEN last.resp[1] = [status |-> 201, code |-> "0",
                                msg |-> <<"succeed to create new schedule",
                                          "schedule_uuid", "">>]
           ELSE last.resp[1] = [status |-> last.decl.status,
                                code |-> last.decl.code,
                                msg |-> last.decl.msg]

\* A call that declared 201 has just been answered, with the backend's code
\* replaced by 0 and an empty schedule_uuid.
C13_Witness ==
    /\ last.pc = "done" /\ last.rpcErr = "nil"
    /\ last.decl.status = 201 /\ last.decl.code # "0"
    /\ last.resp[1].status = 201 /\ last.resp[1].code = "0"
    /\ last.resp[1].msg[3] = ""

\* C14: every request calls Run at most once and the RPC at most once, and
\* only inside its call of Run: a request whose resolution failed has called
\* neither, a request that Run rejected has not called the RPC, and no step
\* takes a request that has called Run back to before the call.
C14_NoRetries ==
    /\ [](\A rec \in Recs :
            /\ rec.runs <= 1
            /\ rec.rpc <= rec.runs
            /\ rec.rerr \in ResolveErrs => rec.runs = 0 /\ rec.rpc = 0
            /\ rec.err = "open" => rec.runs = 1 /\ rec.rpc = 0
            /\ rec.pc \in {"lock", "insert", "unlock", "read"} => rec.runs = 0
            /\ rec.pc \in {"rpc", "rejected", "marked"} => rec.runs = 1)
    /\ [][\A r \in Slots :
            slot[r].runs = 1 => slot'[r].pc \notin {"lock", "insert", "unlock", "read"}]_vars

\* A request has just been answered for a transport error after one RPC, and
\* the breaker it went through is still Closed.
C14_Witness ==
    /\ last.pc = "done" /\ last.rpcErr = "microTimeout"
    /\ last.runs = 1 /\ last.rpc = 1
    /\ brk[last.node].state = "closed"

C16_MutexReleasedBeforeRun ==
    /\ mutex \in {0} \cup Slots
    /\ \A r \in Slots :
         /\ mutex = r <=> slot[r].pc \in {"insert", "unlock"}
         /\ slot[r].pc = "lock" =>
              (ENABLED Lock(r) <=> \A q \in Slots : slot[q].pc \notin {"insert", "unlock"})
         /\ slot[r].pc = "unlock" => ENABLED Unlock(r)
         /\ slot[r].pc = "insert" => ENABLED Insert(r)
         /\ slot[r].pc = "read" => ENABLED Run(r)

\* Two requests are inside the RPC to the same node at the same time, through
\* its Closed breaker, and the mutex is free.
C16_Witness ==
    /\ mutex = 0
    /\ \E r, q \in Slots :
         /\ r # q
         /\ slot[r].pc = "rpc" /\ slot[q].pc = "rpc"
         /\ slot[r].node = slot[q].node
         /\ brk[slot[r].node].state = "closed" /\ brk[slot[r].node].errors = 1

\* C17: no request makes the map read of line 100 while another request is
\* inside the map write of line 95.
C17_NoReadDuringInsert ==
    [][\A r \in Slots : RunStep(r) => ~Racing(r)]_vars

\* The timer that runs its function in this step, for node n.
FiredFor(n, t) ==
    /\ t \in BagToSet(timers)
    /\ t.node = n
    /\ timers' = timers (-) SetToBag({t})
    /\ passes'[n] = passes[n] + 1

\* C18: no PassTTLHealth is sent for a node by a timer that was created
\* before the node's breaker opened for the current Open period.
C18_NoStalePassWhileOpen ==
    [][\A n \in Nodes :
         \A t \in BagToSet(timers) :
            (FiredFor(n, t) /\ brk[n].state = "open") =>
               t.rej >= brk[n].timer - CoolDown]_vars

\* C19: a backend call that returns without transport error, whatever status
\* it declares, is a success to the breaker: it does not raise the failure
\* count, does not stamp a failure and does not open the breaker; returned by
\* a trial call to a breaker that is HalfOpen it adds one to the success count
\* and closes the breaker at successThreshold; otherwise it changes nothing.
C19_OnlyTransportErrorsCount ==
    [][\A r \in Slots :
         LET n == slot[r].node
         IN  (RpcStep(r) /\ last'.rpcErr = "nil") =>
                /\ last'.decl \in Declared
                /\ brk'[n].errors <= brk[n].errors
                /\ brk'[n].lastError = brk[n].lastError
                /\ brk'[n].timer = brk[n].timer
                /\ brk'[n].state = "open" => brk[n].state = "open"
                /\ IF slot[r].st = "halfOpen" /\ brk[n].state = "halfOpen"
                   THEN IF brk[n].successes + 1 = SuccessThreshold
                        THEN brk'[n].state = "closed" /\ brk'[n].successes = 0
                        ELSE /\ brk'[n].state = "halfOpen"
                             /\ brk'[n].successes = brk[n].successes + 1
                   ELSE brk'[n] = brk[n]]_vars

\* A trial call that declared 500 has just been counted as the first success
\* of a HalfOpen breaker.
C19_Witness ==
    /\ last.pc = "done" /\ last.rpcErr = "nil" /\ last.decl.status = 500
    /\ last.st = "halfOpen"
    /\ brk[last.node].state = "halfOpen" /\ brk[last.node].successes = 1

\* C20: FailTTLHealth is called only by a request that Run rejected, once per
\* such request, and PassTTLHealth only by a timer such a request created,
\* once per timer; no timer is removed without running; so for each node the
\* passing signals never exceed the failing signals, and in the end each node
\* has as many passing signals as failing signals and no timer is left; the
\* request whose failure opens the breaker sends no signal and creates no
\* timer.
C20_SignalsPairUp ==
    /\ [](\A n \in Nodes :
            /\ passes[n] <= fails[n]
            /\ fails[n] = passes[n] + Pending(n) + Marked(n))
    /\ [](\A rec \in Recs :
            /\ rec.failOk # "none" <=> (rec.err = "open" /\ rec.pc \in {"marked", "done"})
            /\ rec.sched = (IF rec.err = "open" /\ rec.pc = "done" THEN 1 ELSE 0))
    /\ [][\A n \in Nodes :
            /\ fails'[n] # fails[n] =>
                 /\ fails'[n] = fails[n] + 1
                 /\ \E r \in Slots : /\ slot[r].node = n
                                     /\ slot[r].pc = "rejected" /\ slot[r].err = "open"
                                     /\ slot'[r].pc = "marked"
            /\ passes'[n] # passes[n] => \E t \in BagToSet(timers) : FiredFor(n, t)
            /\ Pending(n)' < Pending(n) => passes'[n] = passes[n] + 1
            /\ Pending(n)' > Pending(n) =>
                 /\ Pending(n)' = Pending(n) + 1
                 /\ last'.pc = "done" /\ last'.err = "open" /\ last'.node = n]_vars
    /\ [][\A r \in Slots :
            (RpcStep(r) /\ brk[slot[r].node].state # "open"
                        /\ brk'[slot[r].node].state = "open") =>
               /\ last'.failOk = "none" /\ last'.sched = 0
               /\ UNCHANGED <<fails, passes, timers>>]_vars
    /\ <>[](\A n \in Nodes :
              passes[n] = fails[n] /\ Pending(n) = 0 /\ Marked(n) = 0)

\* C20 while the process runs: in every run of the fair specification, from
\* some instant on either the process has been ended by the runtime or every
\* node has as many passing signals as failing signals and no timer is left.
C20_PairUpWhileAlive ==
    <>[](~Alive \/ \A n \in Nodes :
                     passes[n] = fails[n] /\ Pending(n) = 0 /\ Marked(n) = 0)

====
